---- MODULE Spec2Model ----
(***************************************************************************)
(* Portal Discovery Tool: the button handlers of main.js and the stress    *)
(* probes of stress-test.js, as a state machine of the page.               *)
(*                                                                         *)
(* One step is one task of the page's event loop: a click handler up to    *)
(* its first await, a timer callback, or the continuation of an await      *)
(* when the awaited browser promise settles.                               *)
(***************************************************************************)
EXTENDS Integers, Sequences, FiniteSets, Bags, TLC

\* ---------------------------------------------------------------- bounds
\* Slideshows that exist at the same time.
MaxShows == 1
\* Overlapping nextSlide invocations of one slideshow.
MaxOverlap == 2
\* Slides of one slideshow that are explored.
MaxIndex == 12
\* Allocation probes started per page load.
MaxT6 == 2
\* Audio contexts that exist at the same time.
MaxCtx == 2
\* Distinct probes whose buttons the user operates between two page loads.
MaxProbes == 2

\* ------------------------------------------------------ program constants
\* photos = Array.from({ length: 10 }, ...)
NumPhotos == 10
\* if (leaks.length > 50)
LeakCap == 50

VARIABLES
    used,           \* the probes whose buttons the user operates in this run
    touchEvent,     \* new TouchEvent(...) of the handler succeeds in this browser
    caps,           \* outcome of each feature check in this browser
    featureList,    \* rows of #feature-list
    uncaught,       \* the task that ran last ended in an uncaught exception or
                    \* an unhandled promise rejection
    paused,         \* video.paused, audio.paused
    playWait,       \* the play promises toggleWakeLock calls await, per element:
                    \* "none", "pending", or "resolving" (taken to be resolved)
    lockStatus,     \* lockStatus.innerText
    fullscreen,     \* document.fullscreenElement is set
    fsWait,         \* some toggle-fullscreen handler awaits a request / an exit
    iframeInterval, \* T11 handle (0: undefined or null)
    iframes,        \* elements with id wake-lock-iframe in the document
    canvasInterval, \* T12 handle (0: undefined or null)
    canvases,       \* elements with id wake-lock-canvas in the document
    intervals,      \* scheduled setInterval timers: <<id, kind>>
    audioContext,   \* T13 handle (0: undefined or null)
    oscillator,     \* T13 oscillator handle (0: undefined or null)
    ctxState,       \* state of each audio context
    resumeWait,     \* contexts whose start handler awaits resume()
    t13Log,         \* last line the start-t13 handler has logged
    t14Active,
    ytApi,          \* window.YT: "absent", "stub" (no YT.Player yet), "ready"
    ytScripts,      \* some inserted iframe_api script tag has not run yet
    player,         \* T15 handle (0: undefined)
    players,        \* YT players created and not destroyed
    ytState,        \* the player the handle names: "none", "loading" (onReady
                    \* not fired yet), "unstarted", "playing", "paused", "ended"
    ytPlayReq,      \* playVideo() has been called and the player has not acted yet
    stressModule,   \* stress-test.js: "unloaded" or "loaded"
    importWait,     \* start-t10 / start-t6 handlers awaiting import()
    shows,          \* the slideshows started by runPhotoSlideshow (a bag)
    leaks,          \* the leaks array of each allocation probe, by timer id
    t6Logged        \* leaks.length in the last 'T6 Status' line of each probe

vars == <<used, touchEvent, caps, featureList, uncaught, t13Log, paused, playWait,
          lockStatus, fullscreen, fsWait, iframeInterval, iframes,
          canvasInterval, canvases, intervals, audioContext, oscillator,
          ctxState, resumeWait, t14Active, ytApi, ytScripts, player,
          players, ytState, ytPlayReq, stressModule, importWait, shows, leaks, t6Logged>>

mediaVars == <<paused, playWait, lockStatus>>
fsVars == <<fullscreen, fsWait>>
t11Vars == <<iframeInterval, iframes>>
t12Vars == <<canvasInterval, canvases>>
t13Vars == <<audioContext, oscillator, ctxState, resumeWait, t13Log>>
t15Vars == <<ytApi, ytScripts, player, players, ytState, ytPlayReq>>
stressVars == <<stressModule, importWait, shows, leaks, t6Logged>>
envVars == <<used, touchEvent, caps, featureList>>

\* The probes of the page, by the buttons that drive them.
Probes == {"media", "fullscreen", "touch", "t11", "t12", "t13", "t14", "t15",
           "slideshow", "t6"}

Media == {"video", "audio"}
Ctxs == 1 .. MaxCtx

\* ------------------------------------------------------- timers of the page
TimerIds(ivs) == {iv[1] : iv \in ivs}

\* The setInterval call sites of the page, by the timer they start.
TimerKinds == <<"t11", "t12", "net", "slide", "t6">>

KindIndex(kind) == CHOOSE k \in 1 .. Len(TimerKinds) : TimerKinds[k] = kind

\* setInterval returns a positive id no timer has. The page only stores ids
\* and hands them back to clearInterval, so which integer it gets is up to
\* the browser: here the n-th id of each call site, the smallest one free.
TimerId(kind, n) == (n - 1) * Len(TimerKinds) + KindIndex(kind)

FreshTimer(ivs, kind) ==
    LET n == CHOOSE i \in 1 .. (Cardinality(ivs) + 1) :
                 /\ TimerId(kind, i) \notin TimerIds(ivs)
                 /\ \A j \in 1 .. (i - 1) : TimerId(kind, j) \in TimerIds(ivs)
    IN TimerId(kind, n)

SetInterval(ivs, kind) == ivs \cup {<<FreshTimer(ivs, kind), kind>>}

\* clearInterval(id): a no-op for an id that is not scheduled.
ClearInterval(ivs, id) == {iv \in ivs : iv[1] # id}

Scheduled(kind) == {iv[1] : iv \in {x \in intervals : x[2] = kind}}


\* ------------------------------------------------- T9: feature detection
\* The fixed list `tests` of runFeatureDetection.
tests ==
    << [name |-> "navigator.wakeLock", displayOnly |-> FALSE],
       [name |-> "document.fullscreenEnabled", displayOnly |-> FALSE],
       [name |-> "HTMLVideoElement.prototype.requestFullscreen", displayOnly |-> FALSE],
       [name |-> "CSS aspect-ratio", displayOnly |-> FALSE],
       [name |-> "JS Array.at", displayOnly |-> FALSE],
       [name |-> "JS Object.hasOwn", displayOnly |-> FALSE],
       [name |-> "User Agent", displayOnly |-> TRUE] >>

\* What each check() can evaluate to in some browser: a boolean, undefined
\* (document.fullscreenEnabled where the API is missing), the user agent
\* string, or an exception (CSS or CSS.supports undefined).
CheckOutcomes(i) ==
    CASE i = 2 -> {"true", "false", "undefined"}
      [] i = 4 -> {"true", "false", "throws"}
      [] i = 7 -> {"Mozilla/5.0"}
      [] OTHER -> {"true", "false"}

CapSets == [1 .. Len(tests) -> {"true", "false", "undefined", "throws", "Mozilla/5.0"}]
Browsers == {c \in CapSets : \A i \in 1 .. Len(tests) : c[i] \in CheckOutcomes(i)}

\* JavaScript truthiness of the values a check produces.
Truthy(v) == v \notin {"false", "undefined", ""}

\* try { result = test.check() } catch (e) { result = 'Error' }
CheckResult(c, i) == IF c[i] = "throws" THEN "Error" ELSE c[i]

FeatureRow(c, i) ==
    LET result == CheckResult(c, i) IN
    [ name |-> tests[i].name,
      statusClass |-> IF tests[i].displayOnly THEN ""
                      ELSE IF Truthy(result) THEN "pass" ELSE "fail",
      statusText |-> IF tests[i].displayOnly THEN result
                     ELSE IF Truthy(result) THEN "Supported" ELSE "Unavailable" ]

\* tests.forEach(...): one <li> appended per test, in order.
runFeatureDetection(c) == [i \in 1 .. Len(tests) |-> FeatureRow(c, i)]

FullSupport == [i \in 1 .. Len(tests) |-> IF i = 7 THEN "Mozilla/5.0" ELSE "true"]


\* ------------------------------------------------------------ page load
\* The state runPhotoSlideshow() sets up before its first nextSlide(): the
\* container is in the document, both images are empty, currentIndex = 0.
\* swaps, lastPhoto and lastImg record what the viewer has been shown.
NewShow ==
    [ phase |-> "first", inDom |-> TRUE, interval |-> 0, listener |-> FALSE,
      currentIndex |-> 0, pending |-> <<>>, src |-> <<-1, -1>>,
      opacity |-> <<"", "">>, swaps |-> 0, lastPhoto |-> -1, lastImg |-> 0 ]

\* The page after main.js has run: every module-level `let` is undefined, the
\* media elements are paused, no timer is scheduled.
PageLoaded ==
    /\ uncaught = FALSE
    /\ paused = [m \in Media |-> TRUE]
    /\ playWait = [m \in Media |-> "none"]
    /\ lockStatus = ""
    /\ fullscreen = FALSE
    /\ fsWait = [k \in {"enter", "exit"} |-> FALSE]
    /\ iframeInterval = 0
    /\ iframes = 0
    /\ canvasInterval = 0
    /\ canvases = 0
    /\ intervals = {}
    /\ audioContext = 0
    /\ oscillator = 0
    /\ ctxState = [c \in Ctxs |-> "none"]
    /\ resumeWait = {}
    /\ t13Log = ""
    /\ t14Active = FALSE
    /\ ytApi = "absent"
    /\ ytScripts = FALSE
    /\ player = 0
    /\ players = {}
    /\ ytState = "none"
    /\ ytPlayReq = FALSE
    /\ stressModule = "unloaded"
    /\ importWait = [k \in {"t10", "t6"} |-> 0]
    /\ shows = EmptyBag
    /\ leaks = << >>
    /\ t6Logged = << >>

\* A run: the user operates the buttons of MaxProbes probes, in a browser
\* with every detected feature, with or without a usable TouchEvent.
Init ==
    /\ used \in {S \in SUBSET Probes : Cardinality(S) = MaxProbes}
    /\ touchEvent \in (IF "touch" \in used THEN BOOLEAN ELSE {TRUE})
    /\ caps = FullSupport
    /\ featureList = runFeatureDetection(caps)
    /\ PageLoaded

\* window.location.reload(): the document is replaced, every timer, pending
\* promise, media element and audio context of the old one is gone, and
\* main.js runs again.
Reload ==
    /\ UNCHANGED <<used, touchEvent, caps>>
    /\ featureList' = runFeatureDetection(caps)
    /\ uncaught' = FALSE
    /\ paused' = [m \in Media |-> TRUE]
    /\ playWait' = [m \in Media |-> "none"]
    /\ lockStatus' = ""
    /\ fullscreen' = FALSE
    /\ fsWait' = [k \in {"enter", "exit"} |-> FALSE]
    /\ iframeInterval' = 0
    /\ iframes' = 0
    /\ canvasInterval' = 0
    /\ canvases' = 0
    /\ intervals' = {}
    /\ audioContext' = 0
    /\ oscillator' = 0
    /\ ctxState' = [c \in Ctxs |-> "none"]
    /\ resumeWait' = {}
    /\ t13Log' = ""
    /\ t14Active' = FALSE
    /\ ytApi' = "absent"
    /\ ytScripts' = FALSE
    /\ player' = 0
    /\ players' = {}
    /\ ytState' = "none"
    /\ ytPlayReq' = FALSE
    /\ stressModule' = "unloaded"
    /\ importWait' = [k \in {"t10", "t6"} |-> 0]
    /\ shows' = EmptyBag
    /\ leaks' = << >>
    /\ t6Logged' = << >>

\* ------------------------------------------------ T1 / T2: media wake lock
\* toggleWakeLock(type) up to its await. play() of an element that is not
\* allowed to play returns a rejected promise and leaves `paused` alone: the
\* catch block logs and nothing else changes. Otherwise the element starts
\* (paused = false) and the promise joins its pending play promises, which the
\* browser settles together: how many handlers await them makes no difference.
toggleWakeLock(m, allowed) ==
    IF allowed
    THEN /\ paused' = [paused EXCEPT ![m] = FALSE]
         /\ playWait' = [playWait EXCEPT ![m] =
                            IF @ = "resolving" THEN @ ELSE "pending"]
    ELSE UNCHANGED <<paused, playWait>>

StartT1Click ==
    /\ "media" \in used
    /\ \E allowed \in BOOLEAN : toggleWakeLock("video", allowed)
    /\ uncaught' = FALSE
    /\ UNCHANGED <<envVars, lockStatus, fsVars, t11Vars, t12Vars,
                   intervals, t13Vars, t14Active, t15Vars, stressVars>>

StartT2Click ==
    /\ "media" \in used
    /\ \E allowed \in BOOLEAN : toggleWakeLock("audio", allowed)
    /\ uncaught' = FALSE
    /\ UNCHANGED <<envVars, lockStatus, fsVars, t11Vars, t12Vars,
                   intervals, t13Vars, t14Active, t15Vars, stressVars>>

ActiveText(m) == IF m = "video" THEN "T1 Video Lock ACTIVE" ELSE "T2 Audio Lock ACTIVE"

\* The element starts playing ("notify about playing"): the browser takes
\* its pending play promises and queues a task that will resolve them. No
\* code of the page runs.
PlayNotified(m) ==
    /\ playWait[m] = "pending"
    /\ ~paused[m]
    /\ playWait' = [playWait EXCEPT ![m] = "resolving"]
    /\ uncaught' = FALSE
    /\ UNCHANGED <<envVars, paused, lockStatus, fsVars, t11Vars,
                   t12Vars, intervals, t13Vars, t14Active, t15Vars, stressVars>>

\* The queued task resolves the promises it was given and each awaiting
\* toggleWakeLock continues after its await.
PlayResolved(m) ==
    /\ playWait[m] = "resolving"
    /\ playWait' = [playWait EXCEPT ![m] = "none"]
    /\ lockStatus' = ActiveText(m)
    /\ uncaught' = FALSE
    /\ UNCHANGED <<envVars, paused, fsVars, t11Vars,
                   t12Vars, intervals, t13Vars, t14Active, t15Vars, stressVars>>

\* The source fails to load: the pending play promises reject and the catch
\* block of toggleWakeLock logs, nothing else.
PlayRejected(m) ==
    /\ playWait[m] = "pending"
    /\ playWait' = [playWait EXCEPT ![m] = "none"]
    /\ uncaught' = FALSE
    /\ UNCHANGED <<envVars, paused, lockStatus, fsVars, t11Vars,
                   t12Vars, intervals, t13Vars, t14Active, t15Vars, stressVars>>

\* stop-locks onclick. pause() of a playing element rejects its pending play
\* promises with AbortError: the awaiting toggleWakeLock calls end in their
\* catch block, which logs. Promises the browser has already taken to be
\* resolved are out of its reach.
StopLocksClick ==
    /\ "media" \in used
    /\ paused' = [m \in Media |-> TRUE]
    /\ playWait' = [m \in Media |->
                       IF ~paused[m] /\ playWait[m] = "pending"
                       THEN "none" ELSE playWait[m]]
    /\ lockStatus' = "Locks inactive"
    /\ uncaught' = FALSE
    /\ UNCHANGED <<envVars, fsVars, t11Vars, t12Vars, intervals,
                   t13Vars, t14Active, t15Vars, stressVars>>

\* ------------------------------------------------------- T3: fullscreen
ToggleFullscreenClick ==
    /\ "fullscreen" \in used
    /\ fsWait' = [fsWait EXCEPT ![IF fullscreen THEN "exit" ELSE "enter"] = TRUE]
    /\ uncaught' = FALSE
    /\ UNCHANGED <<envVars, mediaVars, fullscreen, t11Vars, t12Vars,
                   intervals, t13Vars, t14Active, t15Vars, stressVars>>

\* requestFullscreen() / exitFullscreen() settles and the handler continues:
\* it logs a success line, or the error in its catch block.
FullscreenSettled(kind, ok) ==
    /\ fsWait[kind]
    /\ \E last \in BOOLEAN : fsWait' = [fsWait EXCEPT ![kind] = ~last]
    /\ fullscreen' = IF ok THEN (kind = "enter") ELSE fullscreen
    /\ uncaught' = FALSE
    /\ UNCHANGED <<envVars, mediaVars, t11Vars, t12Vars, intervals,
                   t13Vars, t14Active, t15Vars, stressVars>>

\* --------------------------------------------------- T8: synthetic touch
\* test-touch onclick: no try/catch around the TouchEvent constructor. The
\* dispatched event is not trusted, so the T4 listener logs nothing.
TestTouchClick ==
    /\ "touch" \in used
    /\ uncaught' = ~touchEvent
    /\ UNCHANGED <<envVars, mediaVars, fsVars, t11Vars, t12Vars, intervals,
                   t13Vars, t14Active, t15Vars, stressVars>>

\* ------------------------------------------------- T11: iframe reload timer
\* A faulty start-t11 handler: its stop branch, pasted from T12, also stops
\* the canvas probe.
StartT11Click_StopsCanvas ==
    /\ "t11" \in used
    /\ IF iframeInterval # 0
       THEN /\ intervals' = ClearInterval(ClearInterval(intervals, iframeInterval),
                                          canvasInterval)
            /\ iframeInterval' = 0
            /\ iframes' = IF iframes > 0 THEN iframes - 1 ELSE 0
            /\ canvasInterval' = 0
            /\ canvases' = 0
       ELSE /\ iframes' = iframes + 1
            /\ iframeInterval' = FreshTimer(intervals, "t11")
            /\ intervals' = SetInterval(intervals, "t11")
            /\ UNCHANGED t12Vars
    /\ uncaught' = FALSE
    /\ UNCHANGED <<envVars, mediaVars, fsVars, t13Vars,
                   t14Active, t15Vars, stressVars>>

\* start-t11 onclick.
StartT11Click ==
    /\ "t11" \in used
    /\ IF iframeInterval # 0
       THEN /\ intervals' = ClearInterval(intervals, iframeInterval)
            /\ iframeInterval' = 0
            /\ iframes' = IF iframes > 0 THEN iframes - 1 ELSE 0
       ELSE /\ iframes' = iframes + 1
            /\ iframeInterval' = FreshTimer(intervals, "t11")
            /\ intervals' = SetInterval(intervals, "t11")
    /\ uncaught' = FALSE
    /\ UNCHANGED <<envVars, mediaVars, fsVars, t12Vars, t13Vars,
                   t14Active, t15Vars, stressVars>>

\* The 120 s callback: iframe.src = window.location.href, and a log line.
T11Tick ==
    /\ Scheduled("t11") # {}
    /\ uncaught' = FALSE
    /\ UNCHANGED <<envVars, mediaVars, fsVars, t11Vars, t12Vars, intervals,
                   t13Vars, t14Active, t15Vars, stressVars>>

\* ------------------------------------------------- T12: canvas noise
\* A faulty start-t12 handler whose stop branch forgets clearInterval.
T12Intervals_NoClear ==
    IF canvasInterval # 0
    THEN intervals
    ELSE SetInterval(intervals, "t12")

\* start-t12 onclick, on the timers.
T12Intervals ==
    IF canvasInterval # 0
    THEN ClearInterval(intervals, canvasInterval)
    ELSE SetInterval(intervals, "t12")

\* start-t12 onclick, on the handle and the document.
T12Toggle ==
    IF canvasInterval # 0
    THEN /\ canvasInterval' = 0
         /\ canvases' = IF canvases > 0 THEN canvases - 1 ELSE 0
    ELSE /\ canvases' = canvases + 1
         /\ canvasInterval' = FreshTimer(intervals, "t12")

StartT12Click ==
    /\ "t12" \in used
    /\ T12Toggle
    /\ intervals' = T12Intervals
    /\ uncaught' = FALSE
    /\ UNCHANGED <<envVars, mediaVars, fsVars, t11Vars, t13Vars,
                   t14Active, t15Vars, stressVars>>

\* The 1 s callback repaints the 1x1 canvas and logs nothing.
T12Tick ==
    /\ Scheduled("t12") # {}
    /\ uncaught' = FALSE
    /\ UNCHANGED <<envVars, mediaVars, fsVars, t11Vars, t12Vars, intervals,
                   t13Vars, t14Active, t15Vars, stressVars>>

\* ------------------------------------------------- T13: web audio oscillator
\* An audio context is open from its construction until close() has completed.
OpenCtxs == {c \in Ctxs : ctxState[c] \in {"suspended", "running", "closing"}}

\* An id for a new context: one of a context that is closed, "none".
FreeCtxs == {c \in Ctxs : ctxState[c] = "none"}

\* A faulty start-t13 handler that clears its handles before it awaits
\* close(), so that a click during the close starts a second context.
T13Handler_NullsFirst ==
    IF audioContext # 0
    THEN /\ ctxState' = [ctxState EXCEPT ![audioContext] =
                            IF @ = "none" THEN "none" ELSE "closing"]
         /\ audioContext' = 0
         /\ oscillator' = 0
         /\ t13Log' = "T13: Web Audio Oscillator stopped"
         /\ uncaught' = FALSE
         /\ UNCHANGED resumeWait
    ELSE \E made \in BOOLEAN :
           IF ~made
           THEN /\ t13Log' = "T13 Failed"
                /\ uncaught' = FALSE
                /\ UNCHANGED <<audioContext, oscillator, ctxState, resumeWait>>
           ELSE /\ FreeCtxs # {}
                /\ \E st \in {"suspended", "running"} :
                      LET c == CHOOSE x \in FreeCtxs : \A y \in FreeCtxs : x <= y IN
                      /\ audioContext' = c
                      /\ oscillator' = c
                      /\ ctxState' = [ctxState EXCEPT ![c] = st]
                      /\ resumeWait' = IF st = "suspended" THEN resumeWait \cup {c}
                                       ELSE resumeWait
                /\ t13Log' = "T13: Active (Sub-audible oscillator running)"
                /\ uncaught' = FALSE

\* start-t13 onclick up to its first await.
\*  - stop branch: close() of an open context marks it closing at once; its
\*    `state` attribute reads 'closed' only when the promise resolves. close() of
\*    a context that is already closing either rejects with InvalidStateError
\*    (outside the try block: the rejection escapes) or is settled together
\*    with the first call, depending on the browser.
\*  - start branch: the constructor is missing or throws (caught, logged), or
\*    the new context is 'running' or, under an autoplay policy, 'suspended',
\*    and then resume() is awaited.
T13Handler ==
    IF audioContext # 0
    THEN IF ctxState[audioContext] # "none"
         THEN IF ctxState[audioContext] = "closing"
              THEN /\ \E rejected \in BOOLEAN : uncaught' = rejected
                   /\ UNCHANGED t13Vars
              ELSE /\ ctxState' = [ctxState EXCEPT ![audioContext] = "closing"]
                   /\ uncaught' = FALSE
                   /\ UNCHANGED <<audioContext, oscillator, resumeWait, t13Log>>
         ELSE /\ audioContext' = 0
              /\ oscillator' = 0
              /\ t13Log' = "T13: Web Audio Oscillator stopped"
              /\ uncaught' = FALSE
              /\ UNCHANGED <<ctxState, resumeWait>>
    ELSE \E made \in BOOLEAN :
           IF ~made
           THEN /\ t13Log' = "T13 Failed"
                /\ uncaught' = FALSE
                /\ UNCHANGED <<audioContext, oscillator, ctxState, resumeWait>>
           ELSE /\ FreeCtxs # {}
                /\ \E st \in {"suspended", "running"} :
                      LET c == CHOOSE x \in FreeCtxs : \A y \in FreeCtxs : x <= y IN
                      /\ audioContext' = c
                      /\ oscillator' = c
                      /\ ctxState' = [ctxState EXCEPT ![c] = st]
                      /\ resumeWait' = IF st = "suspended" THEN resumeWait \cup {c}
                                       ELSE resumeWait
                /\ t13Log' = "T13: Active (Sub-audible oscillator running)"
                /\ uncaught' = FALSE

StartT13Click ==
    /\ "t13" \in used
    /\ T13Handler
    /\ UNCHANGED <<envVars, mediaVars, fsVars, t11Vars, t12Vars, intervals,
                   t14Active, t15Vars, stressVars>>

\* close() completes: the context is closed and every stop handler awaiting it
\* continues in the same microtask checkpoint: audioContext = null. A resume()
\* still pending on the context never resolves; where the browser rejects it,
\* the start handler's catch block logs before the stop handlers continue.
CloseSettled(c) ==
    /\ ctxState[c] = "closing"
    /\ ctxState' = [ctxState EXCEPT ![c] = "none"]
    /\ resumeWait' = resumeWait \ {c}
    /\ audioContext' = 0
    /\ oscillator' = 0
    /\ t13Log' = "T13: Web Audio Oscillator stopped"
    /\ uncaught' = FALSE
    /\ UNCHANGED <<envVars, mediaVars, fsVars, t11Vars, t12Vars,
                   intervals, t14Active, t15Vars, stressVars>>

\* resume() settles and the start handler continues after its await, inside
\* the try block. It resolves only while the context is still suspended.
ResumeSettled(c, ok) ==
    /\ c \in resumeWait
    /\ ok => ctxState[c] = "suspended"
    /\ resumeWait' = resumeWait \ {c}
    /\ ctxState' = [ctxState EXCEPT ![c] = IF ok THEN "running" ELSE @]
    /\ t13Log' = IF ok THEN "T13: AudioContext resumed successfully" ELSE "T13 Failed"
    /\ uncaught' = FALSE
    /\ UNCHANGED <<envVars, mediaVars, fsVars, t11Vars, t12Vars,
                   intervals, audioContext, oscillator, t14Active, t15Vars,
                   stressVars>>

\* ------------------------------------------------- T14: kitchen sink
\* start-t14 onclick: the three click() calls run the other handlers
\* synchronously, each up to its first await; then the 15 s timer is set and
\* 'T14: All subsystems engaged' is logged.
StartT14Click ==
    /\ "t14" \in used
    /\ IF t14Active
       THEN Reload
       ELSE /\ t14Active' = TRUE
            /\ \E allowed \in BOOLEAN : toggleWakeLock("video", allowed)
            /\ T12Toggle
            /\ T13Handler
            /\ intervals' = SetInterval(T12Intervals, "net")
            /\ UNCHANGED <<envVars, lockStatus, fsVars, t11Vars, t15Vars, stressVars>>

\* The 15 s callback: fetch(HEAD); then / catch log one line.
T14NetTick ==
    /\ Scheduled("net") # {}
    /\ uncaught' = FALSE
    /\ UNCHANGED <<envVars, mediaVars, fsVars, t11Vars, t12Vars, intervals,
                   t13Vars, t14Active, t15Vars, stressVars>>

\* ------------------------------------------------- T15: YouTube embed
FreshPlayer == CHOOSE i \in 1 .. (Cardinality(players) + 2) :
                  /\ i \notin players \cup {player}
                  /\ \A j \in 1 .. (i - 1) : j \in players \cup {player}

\* A faulty initPlayer without the `if (player) player.destroy()`.
initPlayer_NoDestroy(api) ==
    IF api = "ready"
    THEN /\ player' = FreshPlayer
         /\ players' = players \cup {FreshPlayer}
         /\ ytState' = "loading"
         /\ ytPlayReq' = FALSE
         /\ uncaught' = FALSE
    ELSE /\ uncaught' = TRUE
         /\ UNCHANGED <<player, players, ytState, ytPlayReq>>

\* initPlayer(): destroy the player the handle names, then construct one.
\* While window.YT is only the loader stub, YT.Player is undefined and `new`
\* throws: the handle keeps naming the destroyed player.
initPlayer(api) ==
    IF api = "ready"
    THEN /\ player' = FreshPlayer
         /\ players' = (players \ {player}) \cup {FreshPlayer}
         /\ ytState' = "loading"
         /\ ytPlayReq' = FALSE
         /\ uncaught' = FALSE
    ELSE /\ players' = players \ {player}
         /\ uncaught' = TRUE
         /\ UNCHANGED <<player, ytState, ytPlayReq>>

StartT15Click ==
    /\ "t15" \in used
    /\ IF ytApi # "absent"
       THEN /\ initPlayer(ytApi)
            /\ UNCHANGED <<ytApi, ytScripts>>
       ELSE /\ ytScripts' = TRUE
            /\ uncaught' = FALSE
            /\ UNCHANGED <<ytApi, player, players, ytState, ytPlayReq>>
    /\ UNCHANGED <<envVars, mediaVars, fsVars, t11Vars, t12Vars, intervals,
                   t13Vars, t14Active, stressVars>>

\* An inserted iframe_api script runs: it defines window.YT (the stub) and,
\* the first time, starts loading the widget API.
YTScriptRuns ==
    /\ ytScripts
    /\ \E last \in BOOLEAN : ytScripts' = ~last
    /\ ytApi' = IF ytApi = "absent" THEN "stub" ELSE ytApi
    /\ uncaught' = FALSE
    /\ UNCHANGED <<envVars, mediaVars, fsVars, t11Vars, t12Vars,
                   intervals, t13Vars, t14Active, player, players, ytState,
                   ytPlayReq, stressVars>>

\* The widget API has loaded: window.onYouTubeIframeAPIReady().
YTApiReady ==
    /\ ytApi = "stub"
    /\ ytApi' = "ready"
    /\ initPlayer("ready")
    /\ UNCHANGED <<envVars, mediaVars, fsVars, t11Vars, t12Vars, intervals,
                   t13Vars, t14Active, ytScripts, stressVars>>

\* onPlayerReady(event): the player the handle names has loaded;
\* event.target.playVideo().
PlayerReady ==
    /\ player \in players
    /\ ytState = "loading"
    /\ ytState' = "unstarted"
    /\ ytPlayReq' = TRUE
    /\ uncaught' = FALSE
    /\ UNCHANGED <<envVars, mediaVars, fsVars, t11Vars, t12Vars, intervals,
                   t13Vars, t14Active, ytApi, ytScripts, player, players,
                   stressVars>>

\* onPlayerStateChange(event), on the outstanding playVideo() request: a
\* player that starts playing has acted on it, PAUSED only logs, ENDED calls
\* event.target.playVideo().
onPlayerStateChange(data) ==
    IF data = "playing" THEN FALSE
    ELSE IF data = "ended" THEN TRUE
    ELSE ytPlayReq

\* The player reports a new state: it starts playing (autoplay, a playVideo()
\* request, or the viewer), is paused, or reaches the end of the video.
PlayerStateChange(data) ==
    /\ player \in players
    /\ ytState \notin {"none", "loading", data}
    /\ data \in {"paused", "ended"} => ytState = "playing"
    /\ ytState' = data
    /\ ytPlayReq' = onPlayerStateChange(data)
    /\ uncaught' = FALSE
    /\ UNCHANGED <<envVars, mediaVars, fsVars, t11Vars, t12Vars, intervals,
                   t13Vars, t14Active, ytApi, ytScripts, player, players,
                   stressVars>>

\* ------------------------------------------------- stress-test.js: slideshow
\* start-t10 onclick up to `await getStressTests()`.
StartT10Click ==
    /\ "slideshow" \in used
    /\ BagCardinality(shows) + importWait["t10"] < MaxShows
    /\ importWait' = [importWait EXCEPT !["t10"] = @ + 1]
    /\ uncaught' = FALSE
    /\ UNCHANGED <<envVars, mediaVars, fsVars, t11Vars, t12Vars,
                   intervals, t13Vars, t14Active, t15Vars, stressModule,
                   shows, leaks, t6Logged>>

\* img1 for an even index, img2 for an odd one.
ActiveImg(k) == IF k % 2 = 0 THEN 1 ELSE 2
InactiveImg(k) == IF k % 2 = 0 THEN 2 ELSE 1

\* nextSlide() up to its await: activeImg.src = photos[currentIndex % 10].
NextSlideBegin(s) ==
    [s EXCEPT !.src[ActiveImg(s.currentIndex)] = s.currentIndex % NumPhotos]

\* nextSlide() after its await, for the invocation that read index k: the
\* images it picked before the await are swapped, the shared index is bumped.
NextSlideSwap(s, k) ==
    [s EXCEPT !.opacity[ActiveImg(k)] = "1",
              !.opacity[InactiveImg(k)] = "0",
              !.lastPhoto = s.src[ActiveImg(k)],
              !.lastImg = ActiveImg(k),
              !.swaps = @ + 1,
              !.currentIndex = @ + 1]

\* runPhotoSlideshow() up to `await nextSlide()`.
runPhotoSlideshow == NextSlideBegin(NewShow)

\* import('./stress-test.js') settles for a start-t10 handler. A module that
\* has loaded once is served from the module map.
ImportT10Settled(ok) ==
    /\ importWait["t10"] > 0
    /\ stressModule = "loaded" => ok
    /\ importWait' = [importWait EXCEPT !["t10"] = @ - 1]
    /\ IF ok
       THEN /\ stressModule' = "loaded"
            /\ shows' = shows (+) SetToBag({runPhotoSlideshow})
            /\ uncaught' = FALSE
       ELSE /\ uncaught' = TRUE
            /\ UNCHANGED <<stressModule, shows>>
    /\ UNCHANGED <<envVars, mediaVars, fsVars, t11Vars, t12Vars, intervals,
                   t13Vars, t14Active, t15Vars, leaks, t6Logged>>

\* Slideshow s has become t. A slideshow nothing can reach any more is
\* forgotten: its container is out of the document, no nextSlide call awaits
\* and no timer of it is scheduled (ivs: the timers after the step).
Unreachable(t, ivs) ==
    /\ ~t.inDom
    /\ t.phase # "first"
    /\ t.pending = << >>
    /\ t.interval \notin TimerIds(ivs)

Becomes(s, t, ivs) ==
    IF Unreachable(t, ivs)
    THEN shows (-) SetToBag({s})
    ELSE (shows (-) SetToBag({s})) (+) SetToBag({t})

\* The decode() awaited by `await nextSlide()` settles. Resolved: the first
\* swap, then setInterval(nextSlide, 5000) and the clearInterval listener on
\* closeBtn. Rejected: runPhotoSlideshow rejects and nobody handles it.
FirstDecodeSettled(s, ok) ==
    /\ s.phase = "first"
    /\ IF ok
       THEN /\ intervals' = SetInterval(intervals, "slide")
            /\ shows' = Becomes(s, [NextSlideSwap(s, 0) EXCEPT
                                       !.phase = "running",
                                       !.interval = FreshTimer(intervals, "slide"),
                                       !.listener = TRUE],
                                intervals')
            /\ uncaught' = FALSE
       ELSE /\ shows' = Becomes(s, [s EXCEPT !.phase = "failed"], intervals)
            /\ uncaught' = TRUE
            /\ UNCHANGED intervals
    /\ UNCHANGED <<envVars, mediaVars, fsVars, t11Vars, t12Vars, t13Vars,
                   t14Active, t15Vars, stressModule, importWait, leaks,
                   t6Logged>>

\* A click on 'Exit Slideshow': onclick removes the container; the listener
\* added after the first slide, if it has been added, clears the interval.
ExitIntervals(s) ==
    IF s.listener THEN ClearInterval(intervals, s.interval) ELSE intervals

ExitClick(s) ==
    /\ "slideshow" \in used
    /\ s.inDom
    /\ intervals' = ExitIntervals(s)
    /\ shows' = Becomes(s, [s EXCEPT !.inDom = FALSE], ExitIntervals(s))
    /\ uncaught' = FALSE
    /\ UNCHANGED <<envVars, mediaVars, fsVars, t11Vars, t12Vars,
                   t13Vars, t14Active, t15Vars, stressModule, importWait, leaks,
                   t6Logged>>

\* The 5 s timer calls nextSlide(), whether or not an earlier call still awaits.
SlideTick(s) ==
    /\ s.interval \in Scheduled("slide")
    /\ s.currentIndex < MaxIndex
    /\ Len(s.pending) < MaxOverlap
    /\ shows' = Becomes(s, [NextSlideBegin(s) EXCEPT
                               !.pending = Append(@, s.currentIndex)],
                        intervals)
    /\ uncaught' = FALSE
    /\ UNCHANGED <<envVars, mediaVars, fsVars, t11Vars, t12Vars,
                   intervals, t13Vars, t14Active, t15Vars, stressModule,
                   importWait, leaks, t6Logged>>

RemoveAt(q, j) == [x \in 1 .. (Len(q) - 1) |-> IF x < j THEN q[x] ELSE q[x + 1]]

\* The decode() awaited by a timer-driven nextSlide() settles; a rejection
\* escapes nextSlide, which has no try/catch.
TickDecodeSettled(s, j, ok) ==
    /\ j \in 1 .. Len(s.pending)
    /\ IF ok
       THEN /\ shows' = Becomes(s, [NextSlideSwap(s, s.pending[j]) EXCEPT
                                       !.pending = RemoveAt(s.pending, j)],
                                intervals)
            /\ uncaught' = FALSE
       ELSE /\ shows' = Becomes(s, [s EXCEPT !.pending = RemoveAt(@, j)], intervals)
            /\ uncaught' = TRUE
    /\ UNCHANGED <<envVars, mediaVars, fsVars, t11Vars, t12Vars, intervals,
                   t13Vars, t14Active, t15Vars, stressModule, importWait, leaks,
                   t6Logged>>

\* ------------------------------------------- stress-test.js: allocation probe
StartT6Click ==
    /\ "t6" \in used
    /\ Cardinality(Scheduled("t6")) + importWait["t6"] < MaxT6
    /\ importWait' = [importWait EXCEPT !["t6"] = @ + 1]
    /\ uncaught' = FALSE
    /\ UNCHANGED <<envVars, mediaVars, fsVars, t11Vars, t12Vars,
                   intervals, t13Vars, t14Active, t15Vars, stressModule,
                   shows, leaks, t6Logged>>

\* import() settles for a start-t6 handler, which calls
\* runResourceStressTest(): const leaks = []; setInterval(..., 30000). The
\* returned cancel function is dropped by the caller.
ImportT6Settled(ok) ==
    /\ importWait["t6"] > 0
    /\ stressModule = "loaded" => ok
    /\ importWait' = [importWait EXCEPT !["t6"] = @ - 1]
    /\ IF ok
       THEN /\ stressModule' = "loaded"
            /\ intervals' = SetInterval(intervals, "t6")
            /\ leaks' = leaks @@ (FreshTimer(intervals, "t6") :> << >>)
            /\ t6Logged' = t6Logged @@ (FreshTimer(intervals, "t6") :> 0)
            /\ uncaught' = FALSE
       ELSE /\ uncaught' = TRUE
            /\ UNCHANGED <<stressModule, intervals, leaks, t6Logged>>
    /\ UNCHANGED <<envVars, mediaVars, fsVars, t11Vars, t12Vars, t13Vars,
                   t14Active, t15Vars, shows>>

\* The 30 s callback on its list: leaks.push(data), the 'T6 Status' log line,
\* then the list is emptied if it has grown past the cap.
StressTick(l) ==
    LET pushed == Append(l, "LEAK") IN
    IF Len(pushed) > LeakCap THEN << >> ELSE pushed

\* leaks.length as the 'T6 Status' line of that callback reports it
\* (`${leaks.length * 10}MB`): the length after the push, before the test.
StatusLength(l) == Len(Append(l, "LEAK"))

T6Tick(id) ==
    /\ id \in Scheduled("t6")
    /\ leaks' = [leaks EXCEPT ![id] = StressTick(leaks[id])]
    /\ t6Logged' = [t6Logged EXCEPT ![id] = StatusLength(leaks[id])]
    /\ uncaught' = FALSE
    /\ UNCHANGED <<envVars, mediaVars, fsVars, t11Vars, t12Vars,
                   intervals, t13Vars, t14Active, t15Vars, stressModule,
                   importWait, shows>>

\* The module's top level runs runFeatureDetection(): list.innerHTML = '',
\* then one row per test.
RunFeatureDetection ==
    /\ featureList' = runFeatureDetection(caps)
    /\ uncaught' = FALSE
    /\ UNCHANGED <<used, touchEvent, caps, mediaVars, fsVars, t11Vars,
                   t12Vars, intervals, t13Vars, t14Active, t15Vars, stressVars>>

\* ------------------------------------------------------- specifications
\* The page's buttons, with the completions of what their handlers await.
Next ==
    \/ StartT1Click
    \/ StartT2Click
    \/ \E m \in Media : PlayNotified(m)
    \/ \E m \in Media : PlayResolved(m)
    \/ \E m \in Media : PlayRejected(m)
    \/ StopLocksClick
    \/ ToggleFullscreenClick
    \/ \E k \in {"enter", "exit"}, ok \in BOOLEAN : FullscreenSettled(k, ok)
    \/ TestTouchClick
    \/ StartT11Click
    \/ T11Tick
    \/ StartT12Click
    \/ T12Tick
    \/ StartT13Click
    \/ \E c \in Ctxs : CloseSettled(c)
    \/ \E c \in Ctxs, ok \in BOOLEAN : ResumeSettled(c, ok)
    \/ StartT14Click
    \/ T14NetTick
    \/ StartT15Click
    \/ YTScriptRuns
    \/ YTApiReady
    \/ StartT10Click
    \/ \E ok \in BOOLEAN : ImportT10Settled(ok)
    \/ \E s \in BagToSet(shows), ok \in BOOLEAN : FirstDecodeSettled(s, ok)
    \/ \E s \in BagToSet(shows) : ExitClick(s)
    \/ StartT6Click
    \/ \E ok \in BOOLEAN : ImportT6Settled(ok)

Spec == Init /\ [][Next]_vars

\* The slideshow alone, with its 5 s timer.
InitSlides ==
    /\ used = {"slideshow"}
    /\ touchEvent = TRUE
    /\ caps = FullSupport
    /\ featureList = runFeatureDetection(caps)
    /\ PageLoaded

NextSlides ==
    \/ StartT10Click
    \/ \E ok \in BOOLEAN : ImportT10Settled(ok)
    \/ \E s \in BagToSet(shows), ok \in BOOLEAN : FirstDecodeSettled(s, ok)
    \/ \E s \in BagToSet(shows) : ExitClick(s)
    \/ \E s \in BagToSet(shows) : SlideTick(s)
    \/ \E s \in BagToSet(shows), j \in 1 .. MaxOverlap, ok \in BOOLEAN :
          TickDecodeSettled(s, j, ok)

SpecSlides == InitSlides /\ [][NextSlides]_vars

\* The allocation probe alone, with its 30 s timer.
InitT6 ==
    /\ used = {"t6"}
    /\ touchEvent = TRUE
    /\ caps = FullSupport
    /\ featureList = runFeatureDetection(caps)
    /\ PageLoaded

NextT6 ==
    \/ StartT6Click
    \/ \E ok \in BOOLEAN : ImportT6Settled(ok)
    \/ \E id \in Scheduled("t6") : T6Tick(id)

SpecT6 == InitT6 /\ [][NextT6]_vars

\* The YouTube probe with the events of its player, next to the other
\* buttons of the page.
InitT15 ==
    /\ Init
    /\ "t15" \in used

NextT15 ==
    \/ Next
    \/ PlayerReady
    \/ \E data \in {"playing", "paused", "ended"} : PlayerStateChange(data)

SpecT15 == InitT15 /\ [][NextT15]_vars

\* Feature detection alone: main.js is loaded in any browser.
InitFeature ==
    /\ used = {}
    /\ touchEvent = TRUE
    /\ caps \in Browsers
    /\ featureList = << >>
    /\ PageLoaded

NextFeature == RunFeatureDetection

SpecFeature == InitFeature /\ [][NextFeature]_vars


\* ------------------------------------------------------------- properties
\* C1 (SpecT6): the list of an allocation probe never holds more than 50
\* entries before it is reset: not between two callbacks, and not when the
\* callback reports its length.
C1_LeaksCapped ==
    \A id \in DOMAIN leaks :
        /\ Len(leaks[id]) <= LeakCap
        /\ t6Logged[id] <= LeakCap

\* C2 (Spec): T11 and T12 are idempotent toggles. While the handle of the
\* probe is unset no wake-lock-iframe / wake-lock-canvas element is in the
\* document and no interval of the probe is scheduled; while it is set there
\* is exactly one element, and the one interval the handle names.
C2_ToggleIdempotent ==
    /\ iframeInterval = 0 => (iframes = 0 /\ Scheduled("t11") = {})
    /\ iframeInterval # 0 => (iframes = 1 /\ Scheduled("t11") = {iframeInterval})
    /\ canvasInterval = 0 => (canvases = 0 /\ Scheduled("t12") = {})
    /\ canvasInterval # 0 => (canvases = 1 /\ Scheduled("t12") = {canvasInterval})

\* T12 has been started by its own button and stopped again by the click that
\* start-t14 dispatches: the probe is back in its initial state.
C2_StartedThenStopped ==
    /\ t14Active
    /\ canvasInterval = 0
    /\ canvases = 0
    /\ Scheduled("t12") = {}

\* What makes each of the probes C3 names active.
MediaOn == \E m \in Media : ~paused[m]
T11On == iframeInterval # 0
T12On == canvasInterval # 0
T13On == audioContext # 0
T14On == t14Active
T15On == player # 0
SlideshowOn == \E s \in BagToSet(shows) : s.inDom
T6On == \E iv \in intervals : iv[2] = "t6"

Count(b) == IF b THEN 1 ELSE 0

\* The number of active probes.
ActiveCount ==
    Count(MediaOn) + Count(T11On) + Count(T12On) + Count(T13On) + Count(T14On)
    + Count(T15On) + Count(SlideshowOn) + Count(T6On)

\* The number of probes a step activates or deactivates.
Toggled ==
    Count(MediaOn # MediaOn') + Count(T11On # T11On') + Count(T12On # T12On')
    + Count(T13On # T13On') + Count(T14On # T14On') + Count(T15On # T15On')
    + Count(SlideshowOn # SlideshowOn') + Count(T6On # T6On')

\* C3 as stated (Spec): probes do not interact, no step activates or
\* deactivates more than one probe.
C3_NoInteraction == [][Toggled <= 1]_vars

\* C3 amended (Spec): probes do not interact except through T14. Every step
\* other than a click on start-t14 activates or deactivates at most one probe.
C3_NoInteractionButT14 == [][t14Active' = t14Active => Toggled <= 1]_vars

\* Two probes are active together and T14 has had no part in it.
C3_TwoActive == ~t14Active /\ ActiveCount >= 2

\* C4 (SpecSlides): once Exit has removed a slideshow from the document, no
\* nextSlide timer of it is scheduled, whenever the click came.
C4_ExitClearsInterval ==
    \A s \in BagToSet(shows) : ~s.inDom => s.interval \notin Scheduled("slide")

\* C5 (Spec): no exception and no rejected promise escapes a handler.
C5_NothingEscapes == uncaught = FALSE

\* The T13 probe counts as active while its context is open and its
\* oscillator runs or waits for resume().
T13Active ==
    /\ audioContext \in OpenCtxs
    /\ ctxState[audioContext] = "suspended" => audioContext \in resumeWait

\* C6 (Spec): each module-level handle is set exactly while its probe is
\* active, also after a start attempt that failed.
C6_HandleIffActive ==
    /\ iframeInterval # 0 <=> Scheduled("t11") # {}
    /\ canvasInterval # 0 <=> Scheduled("t12") # {}
    /\ audioContext # 0 <=> T13Active
    /\ player # 0 <=> player \in players

\* C7 (SpecFeature): one row per check, in order; a check that is not
\* display-only is 'pass' / 'Supported' iff it evaluated to a truthy value,
\* and 'fail' / 'Unavailable' when it was falsy or threw.
C7_RowsFollowChecks ==
    featureList # << >> =>
        /\ Len(featureList) = Len(tests)
        /\ \A i \in 1 .. Len(tests) :
              /\ featureList[i].name = tests[i].name
              /\ ~tests[i].displayOnly =>
                    IF caps[i] \in {"false", "undefined", "throws"}
                    THEN /\ featureList[i].statusClass = "fail"
                         /\ featureList[i].statusText = "Unavailable"
                    ELSE /\ featureList[i].statusClass = "pass"
                         /\ featureList[i].statusText = "Supported"

\* C8 (SpecSlides): the k-th completed swap (k = 0, 1, ...) shows photo
\* k mod 10 on the image k mod 2 selects and hides the other one, and the
\* index has advanced by one per swap.
C8_SlidesInOrder ==
    \A s \in BagToSet(shows) :
        s.swaps > 0 =>
            /\ s.lastPhoto = (s.swaps - 1) % NumPhotos
            /\ s.lastImg = ActiveImg(s.swaps - 1)
            /\ s.opacity[ActiveImg(s.swaps - 1)] = "1"
            /\ s.opacity[InactiveImg(s.swaps - 1)] = "0"
            /\ s.currentIndex = s.swaps

\* C9 (Spec): the first click on start-t14 leaves T12 active, T13 active
\* (unless the browser refused the audio context and T13 logged its failure)
\* and the network timer scheduled, whatever was active before; t14Active
\* then stays true until the second click, which reloads the page.
C9_AllEngaged ==
    [][/\ (~t14Active /\ t14Active') =>
             /\ canvasInterval' # 0
             /\ audioContext' # 0 \/ t13Log' = "T13 Failed"
             /\ \E iv \in intervals' : iv[2] = "net"
       /\ (t14Active /\ ~t14Active') => intervals' = {}]_vars

\* C10 (Spec): at most one audio context of T13 is open at a time, and the
\* audioContext handle refers to the open one, for every interleaving of
\* clicks with the completions of close() and resume().
C10_OneContext ==
    /\ Cardinality(OpenCtxs) <= 1
    /\ \A c \in OpenCtxs : audioContext = c

\* A click has arrived while close() was pending, and its own close() was
\* rejected: the context is still closing and the handle still names it.
C10_ClickWhileClosing ==
    /\ used = {"t13", "t14"}
    /\ uncaught
    /\ \E c \in Ctxs : ctxState[c] = "closing" /\ audioContext = c

\* C11 (Spec): the lock status follows the locks. The status names an
\* element as ACTIVE only while that element is playing: after a stop-locks
\* click it reads 'Locks inactive' with both elements paused, also when a
\* play() requested before the click completes after it.
C11_StatusFollowsLocks ==
    \A m \in Media : lockStatus = ActiveText(m) => ~paused[m]

\* C12 (SpecT15): never more than one player that has not been destroyed
\* exists, whatever the order of start-t15 clicks and API-ready callbacks;
\* and whenever the player reports ENDED, playVideo() is called on it again.
C12_OnePlayer ==
    [][/\ Cardinality(players') <= 1
       /\ (ytState # "ended" /\ ytState' = "ended") => ytPlayReq']_vars

\* A click has replaced the first player by a second one, which has played
\* to the end and has been asked to play again.
C12_ReplacedAndRestarted ==
    /\ player = 2
    /\ players = {2}
    /\ ytState = "ended"
    /\ ytPlayReq

====
